---- MODULE Spec2Model ----
(***************************************************************************)
(* Model of the push-to-talk session orchestrator (SessionController in    *)
(* src/session_controller.py) together with the callers and the recognizer *)
(* that drive it.                                                          *)
(*                                                                         *)
(* Every method of the controller runs its state-machine step while it     *)
(* holds self._lock, so each locked region is one atomic action.           *)
(* stop_session() has two locked regions with the timed wait on            *)
(* self._final_event between them; the wait is entered, signalled or timed *)
(* out, and left, in separate actions.  Several stop_session() calls can   *)
(* be in flight: src/main.py runs each hotkey release on a thread of its   *)
(* own.                                                                    *)
(*                                                                         *)
(* The recognizer worker hands an event to the controller by a synchronous *)
(* call that blocks on the controller lock.  The worker's decision to emit *)
(* (recognizer_emit) and the handler's run (handle_recognition_event) are  *)
(* therefore two steps, and a session can end and a new one can start      *)
(* between them.                                                           *)
(***************************************************************************)
EXTENDS Naturals, Sequences, FiniteSets

\* ---------------------------------------------------------------- bounds
MaxSessions == 2    \* start_session() calls that find the state IDLE
MaxEmit     == 2    \* events the recognizer runs decide to emit, in all

\* The threads that run stop_session().  A call gets past its first check
\* only in RECORDING, once per session, so no more calls than sessions are
\* ever between their two locked regions.
Threads == 1 .. MaxSessions
\* The recognizer runs: start_session() starts one per session.
Runs    == 1 .. MaxSessions

\* ------------------------------------------------------------ data model
\* models.SessionState
IDLE       == "IDLE"
RECORDING  == "RECORDING"
FINALIZING == "FINALIZING"
PASTING    == "PASTING"
ERROR      == "ERROR"
SessionState == {IDLE, RECORDING, FINALIZING, PASTING, ERROR}

\* models.RecognitionKind
PARTIAL    == "partial"
FINAL      == "final"
ERROR_KIND == "error"

\* errors.py
NETWORK_ERROR      == "NETWORK_ERROR"
AUTH_FAILED        == "AUTH_FAILED"
NO_ACTIVE_TARGET   == "NO_ACTIVE_TARGET"
ASR_PROTOCOL_ERROR == "ASR_PROTOCOL_ERROR"

\* A text is a tuple of characters, so that str.strip() is computed.
EmptyText == << >>
IsSpace(ch) == ch = " "

\* models.RecognitionEvent (retryable is never read by the controller)
RecognitionEvent(kind, text, code, message) ==
    [kind |-> kind, text |-> text, code |-> code, message |-> message]

\* No call of on_event is in progress for a recognizer run.
NoEvent == RecognitionEvent("none", EmptyText, "", "")

\* The texts a recognizer run reports: the empty Final of a run without
\* audio, a whitespace-only text, a text with surrounding whitespace.
FinalTexts == {EmptyText, <<" ">>, <<" ", "h", " ">>}
PartialTexts == {<<"h">>}

\* The Error events the recognizer builds: every one carries a code
\* (recognizer.py builds them with one of three codes, never with "").
ErrorEvents ==
    { RecognitionEvent(ERROR_KIND, EmptyText, NETWORK_ERROR, "connection lost") }

Events ==
    { RecognitionEvent(PARTIAL, t, "", "") : t \in PartialTexts }
      \cup { RecognitionEvent(FINAL, t, "", "") : t \in FinalTexts }
      \cup ErrorEvents

\* What paste_text does: succeeds, reports failure, or raises.
PasteOutcomes == {"ok", "no target", "raises"}

\* What the two start calls of start_session() do.
StartOutcomes == {"ok", "recognizer raises", "recorder raises"}

\* The reasons cancel_session() is called with.
Reasons == {"app quit"}

\* The two dependencies the controller stops.
Dependencies == {"recorder", "recognizer"}

\* ------------------------------------------------- recorder, data model
MaxStarts    == 2   \* start() calls that find the recorder not running
QueueMaxsize == 2   \* the capacity of an audio queue (queue_maxsize)
MaxDropped   == 2   \* the chunks dropped, at most

\* The items of an audio queue: AudioFrame objects and the end-of-stream
\* marker None.
Frame  == "frame"
Marker == "None"

\* The caller hands a queue of its own to every start(): the controller
\* makes a new one for every session (session_controller.py:57).
Queues == 1 .. MaxStarts

\* What start() meets: the stream is made and started, sd.InputStream()
\* raises, or the start() of the stream raises.
RecorderStartOutcomes == {"ok", "InputStream raises", "stream.start raises"}

\* SoundDeviceRecorder.__init__; stream 0 and queue 0 stand for None.
RecorderNew ==
    [running |-> FALSE, stream |-> 0, audio_queue |-> 0, dropped_chunks |-> 0]

\* No stream made, all queues empty, no queue handed to start() yet, the
\* recorder lock free and no audio callback running.
AudioNew ==
    [streams  |-> << >>,
     queues   |-> [q \in Queues |-> << >>],
     bound    |-> 0,
     marked   |-> {},
     lock     |-> "free",
     callback |-> "none"]

\* ------------------------------------- paste and recognizer, data model
MaxPasses == 2   \* start() calls that start a worker thread
MaxItems  == 2   \* the items put into the queue of one pass
MaxChunks == 2   \* the chunks one streamed response yields

\* The texts paste_text() is called with.
PasteTexts == {EmptyText, << " " >>, << "h" >>, << " ", "h", " " >>}

\* What the clipboard holds before a call.
ClipTexts == {EmptyText, << "o" >>, << "h" >>}

\* What the sequence of paste_text() meets: no fault, a missing
\* dependency, or the call that raises.
PasteFaults ==
    {"none", "dependency missing", "paste raises", "copy raises",
     "keyboard raises", "restore raises"}

\* The faults that come after the text was put on the clipboard.
PlacedFaults == {"keyboard raises", "restore raises"}

\* No call of paste_text() made yet.
PasteNew ==
    [clipboard |-> << "o" >>, text |-> EmptyText, fault |-> "none",
     success |-> FALSE, reason |-> "", clipboard_restored |-> FALSE]

\* The texts the chunks of a response carry; _extract_text gives "" for a
\* chunk without text.
ChunkTexts == {EmptyText, << "h" >>, << "h", "i" >>}

\* The exceptions of the SDK, each by the words its message holds.
Exceptions == {{"timeout"}, {"auth", "timeout"}, {}}

\* What the worker meets when it begins to recognise.
CallOutcomes == {"no dashscope", "no api key", "raises", "ok"}

\* DashscopeRecognizerAdapter.__init__: no thread, the stop event clear.
WorkerNew ==
    [pc |-> "none", stop_event |-> FALSE, join |-> FALSE, queue |-> << >>,
     passes |-> 0, items |-> 0, pcm |-> 0, chunks |-> 0, latest_text |-> EmptyText, events |-> << >>]

\* ----------------------------------------------------------------- state
VARIABLES
    state,        \* self._state
    session_id,   \* self._session_id
    final_event,  \* self._final_event: the flag of the threading.Event
    final_text,   \* self._final_text
    audio_queue,  \* self._audio_queue: the identity of the Queue object
    pc,           \* where each stop_session() caller stands
    got_final,    \* the value its wait returned
    wsid,         \* the session in which its call made RECORDING->FINALIZING
    rec_running,  \* recorder.start() was called and recorder.stop() not since
    asr_run,      \* the recognizer run started and not stopped since, or 0
    pending,      \* per recognizer run, the event its worker is handing over
    emitted,      \* the events the recognizer runs have decided to emit
    obs,          \* callbacks and dependency calls since the last session start
    stop_raises,  \* the dependencies whose stop() raises
    recorder,     \* the fields of the SoundDeviceRecorder
    audio,        \* its input streams, its queues and the calls in progress
    paste,        \* the clipboard and the last call of paste_text()
    worker,       \* the fields and the worker of the recognizer adapter
    locking       \* the lock of the controller and the threads that take it

\* The state of the controller and of what drives it.
controller == << state, session_id, final_event, final_text, audio_queue, pc,
                 got_final, wsid, rec_running, asr_run, pending, emitted,
                 obs, stop_raises >>

\* The state of the components behind the controller's interfaces.  The
\* controller is written against the interfaces (interfaces.py) and its
\* operations leave the components' own state alone; the components are
\* specified on their own, see RecorderSpec.
components == << recorder, audio, paste, worker, locking >>

vars == << controller, components >>

\* One observed call: an observer callback or a call of a dependency.
Ent(ev, a, b, txt, n) == [ev |-> ev, a |-> a, b |-> b, txt |-> txt, n |-> n]

on_state_change(from_state, to_state) ==
    Ent("on_state_change", from_state, to_state, EmptyText, 0)
on_error(code, message) == Ent("on_error", code, message, EmptyText, 0)
\* Mutant: the callback is called without the text of the event.
on_partial_without_text(text) == Ent("on_partial", "", "", EmptyText, 0)

on_partial(text) == Ent("on_partial", "", "", text, 0)
\* paste_text(text) and what the call did (see PasteOutcomes)
paste_text(text, outcome) == Ent("paste_text", outcome, "", text, 0)
recognizer_start(q) == Ent("recognizer.start", "", "", EmptyText, q)
recorder_start(q) == Ent("recorder.start", "", "", EmptyText, q)
recognizer_stop == Ent("recognizer.stop", "", "", EmptyText, 0)
recorder_stop == Ent("recorder.stop", "", "", EmptyText, 0)
\* The same call of a dependency, ended by an exception.
raised(call) == [call EXCEPT !.a = "raises"]

\* The part of the state one locked region reads and writes step by step.
Ctx == [state |-> state, obs |-> obs, rec_running |-> rec_running,
        asr_run |-> asr_run]

\* --------------------------------------------------- lock, data model
\* The operations of the controller that take its lock once.
Operations == {"start_session", "cancel_session"}

\* The events the handler is called with.
Kinds == {PARTIAL, FINAL, ERROR_KIND}

\* The lock free, no call in progress, no worker thread, the final-result
\* signal and the stop event of the recognizer clear.
LockingNew ==
    [lock |-> "free", caller |-> "idle", op |-> "start_session",
     waiter |-> "idle", handler |-> "none", final_event |-> FALSE,
     stop_event |-> FALSE]

\* The controller as its constructor leaves it.
Constructed ==
    /\ state = IDLE
    /\ session_id = 0
    /\ final_event = FALSE
    /\ final_text = EmptyText
    /\ audio_queue = 0
    /\ pc = [t \in Threads |-> "idle"]
    /\ got_final = [t \in Threads |-> FALSE]
    /\ wsid = [t \in Threads |-> 0]
    /\ rec_running = FALSE
    /\ asr_run = 0
    /\ pending = [r \in Runs |-> NoEvent]
    /\ emitted = 0
    /\ obs = << >>
    /\ recorder = RecorderNew
    /\ audio = AudioNew
    /\ paste = PasteNew
    /\ worker = WorkerNew
    /\ locking = LockingNew

\* The dependencies keep their contract: stop() never raises.
Init == Constructed /\ stop_raises = {}

\* One or both dependencies are faulty: every stop() call of theirs raises.
StopRaisesInit == Constructed /\ stop_raises \in (SUBSET Dependencies) \ {{}}

\* ------------------------------------------------------- pure functions
\* str.strip(): leading, then trailing whitespace removed.
RECURSIVE LStrip(_)
LStrip(s) ==
    IF s # << >> /\ IsSpace(Head(s)) THEN LStrip(Tail(s)) ELSE s

RECURSIVE RStrip(_)
RStrip(s) ==
    IF s # << >> /\ IsSpace(s[Len(s)])
    THEN RStrip(SubSeq(s, 1, Len(s) - 1))
    ELSE s

\* Mutant: only the leading whitespace is removed (str.lstrip).
Strip_leading_only(s) == LStrip(s)

\* Mutant: the text is used as delivered.
Strip_missing(s) == s

Strip(s) == RStrip(LStrip(s))

\* --------------------------------------------------- controller helpers
\* Mutant: the callback gets the two states in the wrong order.
_transition_swapped(c, to_state) ==
    IF c.state = to_state
    THEN c
    ELSE [c EXCEPT !.state = to_state,
                   !.obs = Append(@, on_state_change(to_state, c.state))]

_transition(c, to_state) ==
    IF c.state = to_state
    THEN c
    ELSE [c EXCEPT !.state = to_state,
                   !.obs = Append(@, on_state_change(c.state, to_state))]

_emit_error(c, code, message) ==
    [c EXCEPT !.obs = Append(@, on_error(code, message))]

\* The stop call is made; an exception it raises is swallowed (except:
\* pass) and the caller goes on.
\* Mutant: the recorder is not stopped.
_safe_stop_recorder_skipped(c) == c

_safe_stop_recorder(c) ==
    [c EXCEPT !.obs = Append(@, IF "recorder" \in stop_raises
                                THEN raised(recorder_stop)
                                ELSE recorder_stop),
              !.rec_running = FALSE]

_safe_stop_recognizer(c) ==
    [c EXCEPT !.obs = Append(@, IF "recognizer" \in stop_raises
                                THEN raised(recognizer_stop)
                                ELSE recognizer_stop),
              !.asr_run = 0]

\* Mutant: the error path goes to IDLE without passing through ERROR.
_fail_skips_error_state(c, code, message) ==
    _transition(
        _safe_stop_recognizer(_safe_stop_recorder(_emit_error(c, code, message))),
        IDLE)

\* Mutant: the error path does not go on to IDLE.
_fail_stays_in_error(c, code, message) ==
    _safe_stop_recognizer(
        _safe_stop_recorder(
            _emit_error(_transition(c, ERROR), code, message)))

\* Mutant: the stop calls are not wrapped; an exception of one ends the
\* error path where it is raised.
_fail_stop_exception_escapes(c, code, message) ==
    LET c1 == _safe_stop_recorder(
                  _emit_error(_transition(c, ERROR), code, message))
    IN  IF "recorder" \in stop_raises
        THEN c1
        ELSE IF "recognizer" \in stop_raises
        THEN _safe_stop_recognizer(c1)
        ELSE _transition(_safe_stop_recognizer(c1), IDLE)

\* Mutant: the error path stops neither dependency.
_fail_without_teardown(c, code, message) ==
    _transition(_emit_error(_transition(c, ERROR), code, message), IDLE)

_fail(c, code, message) ==
    _transition(
        _safe_stop_recognizer(
            _safe_stop_recorder(
                _emit_error(_transition(c, ERROR), code, message))),
        IDLE)

\* Mutant: an exception of paste_text is taken for a success.
PasteResult_raise_succeeds(outcome) ==
    [success |-> outcome # "no target", reason |-> outcome]

\* PasteResult of one paste_text call (clipboard_restored is never read).
PasteResult(outcome) ==
    [success |-> outcome = "ok",
     reason  |-> IF outcome = "raises" THEN "paste raised" ELSE outcome]

_run_paste(c, text, outcome) ==
    [c EXCEPT !.obs = Append(@, paste_text(text, outcome))]

\* The context a locked region leaves behind.
Commit(c) ==
    /\ state' = c.state
    /\ obs' = c.obs
    /\ rec_running' = c.rec_running
    /\ asr_run' = c.asr_run

\* ------------------------------------------------------------ operations
\* The early returns of the locked regions.
\* Mutant: a start is refused only while recording.
start_session_returns_recording_only == state = RECORDING

start_session_returns == state # IDLE

\* Mutant: a stop is refused only while idle.
stop_session_returns_idle_only == state = IDLE

stop_session_returns == state # RECORDING

\* Mutant: the state is not looked at again after the wait.
stop_session_resume_returns_never == FALSE

stop_session_resume_returns == state # FINALIZING

\* Mutant: a cancel is refused unless the session is recording.
cancel_session_returns_unless_recording == state # RECORDING

cancel_session_returns == state = IDLE

\* Mutant: the session id is left as it is.
next_session_id_kept == session_id

\* self._session_id += 1 (line 54)
next_session_id == session_id + 1

\* Mutant: the queue of the session before is used again.
new_audio_queue_reused == audio_queue

\* Queue(maxsize=...) (line 57): a queue no session had before.
new_audio_queue == audio_queue + 1

\* Mutant: only an exception of recorder.start is handled.
start_session_except_recorder_only(c, outcome) ==
    IF outcome = "recorder raises"
    THEN _fail(c, ASR_PROTOCOL_ERROR, "start failed")
    ELSE c

\* The except clause of start_session() (lines 62-63).
start_session_except(c, outcome) ==
    IF outcome = "ok"
    THEN c
    ELSE _fail(c, ASR_PROTOCOL_ERROR, "start failed")

\* start_session(): one locked region.
start_session ==
    IF start_session_returns
       THEN UNCHANGED << state, session_id, final_event, final_text,
                         audio_queue, pc, got_final, wsid, rec_running,
                         asr_run, pending, emitted, obs, stop_raises, components >>
       ELSE /\ session_id < MaxSessions
            /\ session_id' = next_session_id
            /\ final_event' = FALSE
            /\ final_text' = EmptyText
            /\ audio_queue' = new_audio_queue
            /\ \E outcome \in StartOutcomes :
                 LET q  == new_audio_queue
                     c0 == [Ctx EXCEPT !.obs = << >>]
                     c1 == _transition(c0, RECORDING)
                     \* self._recognizer.start(queue, handler)
                     c2 == IF outcome = "recognizer raises"
                           THEN [c1 EXCEPT
                                   !.obs = Append(@, raised(recognizer_start(q)))]
                           ELSE [c1 EXCEPT
                                   !.obs = Append(@, recognizer_start(q)),
                                   !.asr_run = session_id + 1]
                     \* self._recorder.start(queue), unless the first raised
                     c3 == IF outcome = "recognizer raises"
                           THEN c2
                           ELSE IF outcome = "recorder raises"
                           THEN [c2 EXCEPT
                                   !.obs = Append(@, raised(recorder_start(q)))]
                           ELSE [c2 EXCEPT
                                   !.obs = Append(@, recorder_start(q)),
                                   !.rec_running = TRUE]
                     c4 == start_session_except(c3, outcome)
                 IN  Commit(c4)
            /\ UNCHANGED << pc, got_final, wsid, pending, emitted,
                            stop_raises, components >>

\* stop_session(), first locked region (lines 66-70).  The callers are
\* interchangeable threads: the call is run by the first one that is free.
stop_session_begin(t) ==
    /\ pc[t] = "idle"
    /\ \A u \in Threads : u < t => pc[u] # "idle"
    /\ IF stop_session_returns
       THEN UNCHANGED << state, obs, rec_running, asr_run, pc, wsid >>
       ELSE /\ Commit(_safe_stop_recorder(_transition(Ctx, FINALIZING)))
            /\ pc' = [pc EXCEPT ![t] = "wait"]
            /\ wsid' = [wsid EXCEPT ![t] = session_id]
    /\ UNCHANGED << session_id, final_event, final_text, audio_queue,
                    got_final, pending, emitted, stop_raises, components >>

\* self._final_event.wait(timeout): the call is entered with the lock
\* released; a flag already set makes it return True at once.
final_event_wait(t) ==
    /\ pc[t] = "wait"
    /\ pc' = [pc EXCEPT ![t] = IF final_event THEN "woken" ELSE "blocked"]
    /\ got_final' = [got_final EXCEPT ![t] = final_event]
    /\ UNCHANGED << state, session_id, final_event, final_text, audio_queue,
                    wsid, rec_running, asr_run, pending, emitted, obs,
                    stop_raises, components >>

\* The timeout of the wait elapses: the wait returns False.
final_event_timeout(t) ==
    /\ pc[t] = "blocked"
    /\ pc' = [pc EXCEPT ![t] = "woken"]
    /\ got_final' = [got_final EXCEPT ![t] = FALSE]
    /\ UNCHANGED << state, session_id, final_event, final_text, audio_queue,
                    wsid, rec_running, asr_run, pending, emitted, obs,
                    stop_raises, components >>

\* self._final_event.set(): the flag is set and every blocked waiter is
\* notified; its wait returns True.
final_event_set ==
    /\ final_event' = TRUE
    /\ pc' = [t \in Threads |-> IF pc[t] = "blocked" THEN "woken" ELSE pc[t]]
    /\ got_final' = [t \in Threads |->
                       IF pc[t] = "blocked" THEN TRUE ELSE got_final[t]]

\* stop_session(), second locked region (lines 74-92).
stop_session_resume(t) ==
    /\ pc[t] = "woken"
    /\ pc' = [pc EXCEPT ![t] = "idle"]
    /\ got_final' = [got_final EXCEPT ![t] = FALSE]
    /\ wsid' = [wsid EXCEPT ![t] = 0]
    /\ IF stop_session_resume_returns
       THEN UNCHANGED << state, obs, rec_running, asr_run >>
       ELSE IF ~got_final[t]
       THEN Commit(_fail(Ctx, ASR_PROTOCOL_ERROR, "final result timeout"))
       ELSE IF Strip(final_text) = EmptyText
       THEN Commit(_safe_stop_recognizer(_transition(Ctx, IDLE)))
       ELSE \E outcome \in PasteOutcomes :
              LET result == PasteResult(outcome)
                  c1 == _run_paste(_transition(Ctx, PASTING),
                                   Strip(final_text), outcome)
                  c2 == IF ~result.success
                        THEN _emit_error(c1, NO_ACTIVE_TARGET, result.reason)
                        ELSE c1
              IN  Commit(_transition(_safe_stop_recognizer(c2), IDLE))
    /\ UNCHANGED << session_id, final_event, final_text, audio_queue,
                    pending, emitted, stop_raises, components >>

\* Mutant: cancel_session() leaves the recorder running.
cancel_session_keeps_recorder(reason) ==
    /\ IF cancel_session_returns
       THEN UNCHANGED << state, obs, rec_running, asr_run >>
       ELSE Commit(
              _transition(
                _safe_stop_recognizer(
                  _emit_error(Ctx, ASR_PROTOCOL_ERROR, reason)),
                IDLE))
    /\ UNCHANGED << session_id, final_event, final_text, audio_queue, pc,
                    got_final, wsid, pending, emitted, stop_raises, components >>

\* cancel_session(reason): one locked region.
cancel_session(reason) ==
    /\ IF cancel_session_returns
       THEN UNCHANGED << state, obs, rec_running, asr_run >>
       ELSE Commit(
              _transition(
                _safe_stop_recognizer(
                  _safe_stop_recorder(
                    _emit_error(Ctx, ASR_PROTOCOL_ERROR, reason))),
                IDLE))
    /\ UNCHANGED << session_id, final_event, final_text, audio_queue, pc,
                    got_final, wsid, pending, emitted, stop_raises, components >>

\* The worker of recognizer run r, not stopped, decides to emit event e
\* and calls on_event(e); the call waits for the controller lock.
recognizer_emit(r, e) ==
    /\ asr_run = r
    /\ pending[r] = NoEvent
    /\ emitted < MaxEmit
    /\ pending' = [pending EXCEPT ![r] = e]
    /\ emitted' = emitted + 1
    /\ UNCHANGED << state, session_id, final_event, final_text, audio_queue,
                    pc, got_final, wsid, rec_running, asr_run, obs,
                    stop_raises, components >>

\* _handle_recognition_event(event): one locked region, run for the event
\* the worker of run r is handing over.
_handle_recognition_event(r) ==
    LET event == pending[r] IN
    /\ event # NoEvent
    /\ pending' = [pending EXCEPT ![r] = NoEvent]
    /\ IF event.kind = PARTIAL
       THEN /\ obs' = Append(obs, on_partial(event.text))
            /\ UNCHANGED << state, rec_running, asr_run, final_event,
                            final_text, pc, got_final >>
       ELSE IF event.kind = FINAL
       THEN /\ final_text' = event.text
            /\ final_event_set
            /\ UNCHANGED << state, rec_running, asr_run, obs >>
       ELSE /\ Commit(_fail(Ctx,
                            IF event.code = "" THEN ASR_PROTOCOL_ERROR
                                               ELSE event.code,
                            event.message))
            /\ UNCHANGED << final_event, final_text, pc, got_final >>
    /\ UNCHANGED << session_id, audio_queue, wsid, emitted, stop_raises, components >>

Next ==
    \/ start_session
    \/ \E t \in Threads : stop_session_begin(t)
    \/ \E t \in Threads : final_event_wait(t)
    \/ \E t \in Threads : final_event_timeout(t)
    \/ \E t \in Threads : stop_session_resume(t)
    \/ \E reason \in Reasons : cancel_session(reason)
    \/ \E r \in Runs : \E e \in Events : recognizer_emit(r, e)
    \/ \E r \in Runs : _handle_recognition_event(r)

Spec == Init /\ [][Next]_vars

\* The same operations with dependencies whose stop() raises.
StopRaisesSpec == StopRaisesInit /\ [][Next]_vars

\* The scheduling the liveness of a session rests on: a session that is
\* recording is eventually stopped or cancelled by its caller (the hotkey
\* release or the shutdown of src/main.py), and a stop_session() call
\* goes on: its thread enters the wait, the wait returns on the timeout at
\* the latest, and the thread gets the lock again.  paste_text and the
\* stop calls of the dependencies return: they are inside the steps.
StopOrCancel ==
    /\ state = RECORDING
    /\ \/ \E t \in Threads : stop_session_begin(t)
       \/ \E reason \in Reasons : cancel_session(reason)

WaitGoesOn ==
    \E t \in Threads :
        \/ final_event_wait(t)
        \/ final_event_timeout(t)
        \/ stop_session_resume(t)

FairSpec == Spec /\ WF_vars(StopOrCancel) /\ WF_vars(WaitGoesOn)

\* ------------------------------------------------ SoundDeviceRecorder
\* start(), and stop() of a recorder that is not running, run under
\* self._lock in one step.  stop() of a running recorder holds the lock
\* while it waits in stream.stop(); _on_audio() takes no lock: the audio
\* thread of the stream calls it, one call at a time, while the stream is
\* active.

\* Queue.put_nowait(item): the queue afterwards, unchanged when it is Full.
\* Mutant: the item is put whatever the queue holds.
put_nowait_unbounded(queue, item) == Append(queue, item)

put_nowait(queue, item) ==
    IF Len(queue) < QueueMaxsize THEN Append(queue, item) ELSE queue

\* put_nowait raises Full.
Full(queue) == Len(queue) >= QueueMaxsize

\* _emit_sentinel_if_needed(): the audio state afterwards.
_emit_sentinel_if_needed(a) ==
    IF recorder.audio_queue = 0
    THEN a
    ELSE [a EXCEPT
            !.queues[recorder.audio_queue] = put_nowait(@, Marker),
            !.marked = IF Full(a.queues[recorder.audio_queue])
                       THEN @ ELSE @ \cup {recorder.audio_queue}]

\* Mutant: start() goes on whether the recorder runs or not.
SoundDeviceRecorder_start_returns_never == FALSE

\* The early return of start() (lines 41-42).
SoundDeviceRecorder_start_returns == recorder.running

\* start(audio_queue): the caller passes the next queue of its own.
SoundDeviceRecorder_start(outcome) ==
    /\ audio.lock = "free"
    /\ IF SoundDeviceRecorder_start_returns
       THEN UNCHANGED << recorder, audio >>
       ELSE /\ audio.bound < MaxStarts
            /\ LET q == audio.bound + 1
                   n == Len(audio.streams) + 1
               IN  IF outcome = "InputStream raises"
                   THEN /\ recorder' = [recorder EXCEPT !.audio_queue = q]
                        /\ audio' = [audio EXCEPT !.bound = q]
                   ELSE IF outcome = "stream.start raises"
                   THEN /\ recorder' = [recorder EXCEPT !.audio_queue = q,
                                                        !.stream = n]
                        /\ audio' = [audio EXCEPT
                                       !.bound = q,
                                       !.streams = Append(@, "made")]
                   ELSE /\ recorder' = [recorder EXCEPT !.audio_queue = q,
                                                        !.stream = n,
                                                        !.running = TRUE]
                        /\ audio' = [audio EXCEPT
                                       !.bound = q,
                                       !.streams = Append(@, "active")]
    /\ UNCHANGED << controller, paste, worker, locking >>

\* stop() of a recorder that is not running (lines 59-61).
SoundDeviceRecorder_stop_not_running ==
    /\ audio.lock = "free"
    /\ ~recorder.running
    /\ audio' = _emit_sentinel_if_needed(audio)
    /\ UNCHANGED << recorder, controller, paste, worker, locking >>

\* stop() of a running recorder, up to the call of stream.stop() (lines
\* 58-64): the lock is taken and _running is cleared.
SoundDeviceRecorder_stop_enter ==
    /\ audio.lock = "free"
    /\ recorder.running
    /\ recorder' = [recorder EXCEPT !.running = FALSE]
    /\ audio' = [audio EXCEPT !.lock = "stop"]
    /\ UNCHANGED << controller, paste, worker, locking >>

\* Mutant: stream.stop() returns while a callback is running.
stream_stop_returns_at_once == TRUE

\* stream.stop() of sounddevice returns when the audio thread has left
\* the callback; no callback is made after it.
stream_stop_returns == audio.callback = "none"

\* stop() of a running recorder, from the return of stream.stop() to the
\* end (lines 64-67): the stream is closed, the marker is put.
SoundDeviceRecorder_stop_finish ==
    /\ audio.lock = "stop"
    /\ stream_stop_returns
    /\ recorder' = [recorder EXCEPT !.stream = 0]
    /\ audio' = [_emit_sentinel_if_needed(audio) EXCEPT
                   !.streams[recorder.stream] = "closed",
                   !.lock = "free"]
    /\ UNCHANGED << controller, paste, worker, locking >>

\* A stream is active: its audio thread calls _on_audio().
StreamActive ==
    recorder.stream # 0 /\ audio.streams[recorder.stream] = "active"

\* _on_audio(), the checks (lines 70-73): the call returns, or goes on to
\* build its frame.
_on_audio_enter ==
    /\ StreamActive
    /\ audio.callback = "none"
    /\ recorder.dropped_chunks < MaxDropped
    /\ IF ~recorder.running \/ recorder.audio_queue = 0
       THEN UNCHANGED audio
       ELSE audio' = [audio EXCEPT !.callback = "checked"]
    /\ UNCHANGED << recorder, controller, paste, worker, locking >>

\* _on_audio(), the put (lines 81-84), into the queue self._audio_queue
\* names at that moment.
_on_audio_put ==
    /\ audio.callback = "checked"
    /\ LET q == recorder.audio_queue
       IN  /\ audio' = [audio EXCEPT !.queues[q] = put_nowait(@, Frame),
                                     !.callback = "none"]
           /\ recorder' = [recorder EXCEPT
                             !.dropped_chunks =
                                 IF Full(audio.queues[q]) THEN @ + 1 ELSE @]
    /\ UNCHANGED << controller, paste, worker, locking >>

\* The consumer of a queue (the recognizer worker) takes its first item.
queue_get(q) ==
    /\ audio.queues[q] # << >>
    /\ audio' = [audio EXCEPT !.queues[q] = Tail(@)]
    /\ UNCHANGED << recorder, controller, paste, worker, locking >>

RecorderNext ==
    \/ \E outcome \in RecorderStartOutcomes : SoundDeviceRecorder_start(outcome)
    \/ SoundDeviceRecorder_stop_not_running
    \/ SoundDeviceRecorder_stop_enter
    \/ SoundDeviceRecorder_stop_finish
    \/ _on_audio_enter
    \/ _on_audio_put
    \/ \E q \in Queues : queue_get(q)

\* The recorder on its own, with its callers and its audio thread.
RecorderSpec == Init /\ [][RecorderNext]_vars

\* ---------------------------------------------- ClipboardPasteService
\* paste_text(text) with the clipboard holding clip: the result and the
\* clipboard afterwards.  fault names the call of the sequence that
\* raises; again tells whether the copy of the exception handler raises
\* as well.
ClipboardPasteService_paste_text(text, clip, fault, again) ==
    LET Result(success, reason, restored, clipboard) ==
            [success |-> success, reason |-> reason,
             clipboard_restored |-> restored, clipboard |-> clipboard]
        saved   == fault # "paste raises"
        before  == IF fault \in PlacedFaults THEN text ELSE clip
    IN  IF Strip(text) = EmptyText
        THEN Result(FALSE, "empty text", TRUE, clip)
        ELSE IF fault = "dependency missing"
        THEN Result(FALSE, "clipboard/keyboard dependency missing", FALSE,
                    clip)
        ELSE IF fault = "none"
        THEN Result(TRUE, "ok", TRUE, clip)
        ELSE IF saved /\ ~again
        THEN Result(FALSE, NO_ACTIVE_TARGET, TRUE, clip)
        ELSE Result(FALSE, NO_ACTIVE_TARGET, FALSE, before)

\* A call of paste_text().
ClipboardPasteService_paste(text, fault, again) ==
    /\ LET r == ClipboardPasteService_paste_text(text, paste.clipboard,
                                                 fault, again)
       IN  paste' = [clipboard |-> r.clipboard, text |-> text,
                     fault |-> fault, success |-> r.success,
                     reason |-> r.reason,
                     clipboard_restored |-> r.clipboard_restored]
    /\ UNCHANGED << controller, recorder, audio, worker, locking >>

\* The user copies something between two calls.
pyperclip_copy(clip) ==
    /\ paste.clipboard # clip
    /\ paste' = [paste EXCEPT !.clipboard = clip]
    /\ UNCHANGED << controller, recorder, audio, worker, locking >>

PasteNext ==
    \/ \E text \in PasteTexts, fault \in PasteFaults, again \in BOOLEAN :
         ClipboardPasteService_paste(text, fault, again)
    \/ \E clip \in ClipTexts : pyperclip_copy(clip)

\* The paste service on its own.
PasteSpec == Init /\ [][PasteNext]_vars

\* ----------------------------------------- DashscopeRecognizerAdapter
\* The worker thread runs without a lock; every read of the stop event,
\* every get from the queue and every call of on_event is a step of its
\* own, and stop() can come between any two of them.

\* The events of one pass, as on_event receives them.
WorkerEvent(kind, text, code) == [kind |-> kind, text |-> text, code |-> code]

\* _to_error_event(exc): the code by the words of the message.
_to_error_event(exc) ==
    WorkerEvent(ERROR_KIND, EmptyText,
                IF exc \cap {"401", "auth", "api key"} # {}
                THEN AUTH_FAILED
                ELSE IF exc \cap {"timeout", "network", "connection"} # {}
                THEN NETWORK_ERROR
                ELSE ASR_PROTOCOL_ERROR)

\* self._thread.is_alive()
is_alive == worker.pc \notin {"none", "done"}

\* self._on_event(event): the event joins those of the pass.
_on_event(w, event) == [w EXCEPT !.events = Append(@, event)]

\* start(audio_queue, on_event): nothing when the thread is alive; else
\* the queue of the caller is taken, the stop event cleared and a worker
\* thread started.
DashscopeRecognizerAdapter_start ==
    /\ ~worker.join
    /\ IF is_alive
       THEN UNCHANGED worker
       ELSE /\ worker.passes < MaxPasses
            /\ worker' = [WorkerNew EXCEPT !.pc = "loop",
                                           !.passes = worker.passes + 1]
    /\ UNCHANGED << controller, recorder, audio, paste, locking >>

\* stop(), up to the join (lines 75-77): the stop event is set, and a
\* worker that is alive is joined.
DashscopeRecognizerAdapter_stop ==
    /\ worker.passes > 0
    /\ ~worker.join
    /\ worker' = [worker EXCEPT !.stop_event = TRUE, !.join = is_alive]
    /\ UNCHANGED << controller, recorder, audio, paste, locking >>

\* The worker is in a call that can last longer than the 0.5 s of the
\* join: the request to the backend, the wait for the next chunk (up to
\* request_timeout_s), or on_event, which waits for the lock of the
\* controller.  In its queue loop it reads the stop event within 0.2 s.
BlockingCalls == {"empty final", "recognize", "chunks", "partial"}

\* join(timeout=0.5) returns: the worker has ended, or the join gives up
\* on a worker that is in a blocking call.
Thread_join ==
    /\ worker.join
    /\ ~is_alive \/ worker.pc \in BlockingCalls
    /\ worker' = [worker EXCEPT !.join = FALSE]
    /\ UNCHANGED << controller, recorder, audio, paste, locking >>

\* The recorder puts a frame or the marker into the queue of the pass.
audio_queue_put(item) ==
    /\ worker.passes > 0
    /\ worker.items < MaxItems
    /\ worker' = [worker EXCEPT !.queue = Append(@, item), !.items = @ + 1]
    /\ UNCHANGED << controller, recorder, audio, paste, locking >>

\* _worker, one turn of the loop (lines 91-101): the loop ends when the
\* stop event is set or the marker is taken; a get that times out on an
\* empty queue begins the next turn.
_worker_loop ==
    /\ worker.pc = "loop"
    /\ IF worker.stop_event
       THEN worker' = [worker EXCEPT !.pc = "after loop"]
       ELSE IF worker.queue = << >>
       THEN UNCHANGED worker
       ELSE IF Head(worker.queue) = Marker
       THEN worker' = [worker EXCEPT !.queue = Tail(@), !.pc = "after loop"]
       ELSE worker' = [worker EXCEPT !.queue = Tail(@), !.pcm = @ + 1]
    /\ UNCHANGED << controller, recorder, audio, paste, locking >>

\* Mutant: the collected audio never counts as empty.
pcm_empty_never == FALSE

\* not pcm (line 106)
pcm_empty == worker.pcm = 0

\* _worker after the loop (lines 103-112): return when stopped, else go
\* on to the empty Final or to the recognition.
_worker_after_loop ==
    /\ worker.pc = "after loop"
    /\ worker' = [worker EXCEPT
                    !.pc = IF worker.stop_event THEN "done"
                           ELSE IF pcm_empty THEN "empty final"
                           ELSE "recognize"]
    /\ UNCHANGED << controller, recorder, audio, paste, locking >>

\* _worker, the Final of a pass without audio (lines 107-108).
_worker_empty_final ==
    /\ worker.pc = "empty final"
    /\ worker' = [_on_event(worker, WorkerEvent(FINAL, EmptyText, ""))
                    EXCEPT !.pc = "done"]
    /\ UNCHANGED << controller, recorder, audio, paste, locking >>

\* _recognize_stream up to the streamed call (lines 116-156).
_recognize_stream_call(outcome, exc) ==
    /\ worker.pc = "recognize"
    /\ worker' =
         IF outcome = "no dashscope"
         THEN [_on_event(worker,
                         WorkerEvent(ERROR_KIND, EmptyText, ASR_PROTOCOL_ERROR))
                 EXCEPT !.pc = "done"]
         ELSE IF outcome = "no api key"
         THEN [_on_event(worker,
                         WorkerEvent(ERROR_KIND, EmptyText, AUTH_FAILED))
                 EXCEPT !.pc = "done"]
         ELSE IF outcome = "raises"
         THEN [_on_event(worker, _to_error_event(exc)) EXCEPT !.pc = "done"]
         ELSE [worker EXCEPT !.pc = "chunks"]
    /\ UNCHANGED << controller, recorder, audio, paste, locking >>

\* _recognize_stream, the response yields a chunk (lines 160-165): return
\* when stopped, else take its text.
_recognize_stream_chunk(text) ==
    /\ worker.pc = "chunks"
    /\ worker.chunks < MaxChunks
    /\ worker' =
         IF worker.stop_event
         THEN [worker EXCEPT !.pc = "done"]
         ELSE IF text = EmptyText
         THEN [worker EXCEPT !.chunks = @ + 1]
         ELSE [worker EXCEPT !.chunks = @ + 1, !.latest_text = text,
                             !.pc = "partial"]
    /\ UNCHANGED << controller, recorder, audio, paste, locking >>

\* _recognize_stream, the Partial of a chunk with text (lines 166-168).
_recognize_stream_partial ==
    /\ worker.pc = "partial"
    /\ worker' = [_on_event(worker,
                            WorkerEvent(PARTIAL, worker.latest_text, ""))
                    EXCEPT !.pc = "chunks"]
    /\ UNCHANGED << controller, recorder, audio, paste, locking >>

\* _recognize_stream, the response raises (lines 169-171).
_recognize_stream_except(exc) ==
    /\ worker.pc = "chunks"
    /\ worker' = [_on_event(worker, _to_error_event(exc)) EXCEPT !.pc = "done"]
    /\ UNCHANGED << controller, recorder, audio, paste, locking >>

\* _recognize_stream, the response ends (lines 173-175).
_recognize_stream_final ==
    /\ worker.pc = "chunks"
    /\ worker' = [_on_event(worker,
                            WorkerEvent(FINAL, worker.latest_text, ""))
                    EXCEPT !.pc = "done"]
    /\ UNCHANGED << controller, recorder, audio, paste, locking >>

RecognizerNext ==
    \/ DashscopeRecognizerAdapter_start
    \/ DashscopeRecognizerAdapter_stop
    \/ Thread_join
    \/ \E item \in {Frame, Marker} : audio_queue_put(item)
    \/ _worker_loop
    \/ _worker_after_loop
    \/ _worker_empty_final
    \/ \E outcome \in CallOutcomes, exc \in Exceptions :
         _recognize_stream_call(outcome, exc)
    \/ \E text \in ChunkTexts : _recognize_stream_chunk(text)
    \/ _recognize_stream_partial
    \/ \E exc \in Exceptions : _recognize_stream_except(exc)
    \/ _recognize_stream_final

\* The recognizer adapter on its own, with its caller, its queue and its
\* backend.
RecognizerSpec == Init /\ [][RecognizerNext]_vars

\* ------------------------------------------------ the controller lock
\* Who holds self._lock and where each thread stands with it: a thread
\* that calls start_session() or cancel_session() (caller), a thread in
\* stop_session() (waiter), and the recognizer worker, which calls
\* _handle_recognition_event (handler).  Each takes the lock with
\* "with self._lock" and calls recognizer.stop(), which joins the worker,
\* inside the locked region.

\* Mutant: the wait is made inside the first locked region.
lock_kept_across_wait == "waiter"

\* The end of the first "with self._lock" block of stop_session() (line
\* 70): the lock is released before the wait of line 72.
lock_released_before_wait == "free"

\* Mutant: the join has no timeout.
Thread_join_without_timeout == FALSE

\* self._thread.join(timeout=0.5) gives up after its timeout.
Thread_join_timeout == TRUE

\* self._thread.is_alive() of the recognizer's worker.
handler_alive == locking.handler # "none"

\* The join of recognizer.stop() returns: no worker is alive, or the
\* timeout elapses.
join_returns == ~handler_alive \/ Thread_join_timeout

\* A thread calls start_session() or cancel_session() and asks for the
\* lock.
caller_call(op) ==
    /\ locking.caller = "idle"
    /\ locking' = [locking EXCEPT !.caller = "acquire", !.op = op]
    /\ UNCHANGED << controller, recorder, audio, paste, worker >>

caller_acquire ==
    /\ locking.caller = "acquire"
    /\ locking.lock = "free"
    /\ locking' = [locking EXCEPT !.caller = "locked", !.lock = "caller"]
    /\ UNCHANGED << controller, recorder, audio, paste, worker >>

\* The locked region of the call.  start_session(): an early return, or
\* the signal is cleared and recognizer.start() starts a worker unless
\* one is alive; when a start raises, _fail stops the recognizer.
\* cancel_session(): an early return, or recognizer.stop().  stop() sets
\* the stop event and joins a worker that is alive.
caller_region(returns, raises) ==
    /\ locking.caller = "locked"
    /\ IF returns
       THEN locking' = [locking EXCEPT !.caller = "idle", !.lock = "free"]
       ELSE IF locking.op = "start_session" /\ ~raises
       THEN locking' = [locking EXCEPT
                          !.final_event = FALSE,
                          !.handler = IF handler_alive THEN @ ELSE "running",
                          !.stop_event = IF handler_alive THEN @ ELSE FALSE,
                          !.caller = "idle", !.lock = "free"]
       ELSE IF handler_alive
       THEN locking' = [locking EXCEPT !.stop_event = TRUE, !.caller = "join"]
       ELSE locking' = [locking EXCEPT !.stop_event = TRUE,
                                       !.caller = "idle", !.lock = "free"]
    /\ UNCHANGED << controller, recorder, audio, paste, worker >>

\* The join returns and the locked region ends.
caller_join ==
    /\ locking.caller = "join"
    /\ join_returns
    /\ locking' = [locking EXCEPT !.caller = "idle", !.lock = "free"]
    /\ UNCHANGED << controller, recorder, audio, paste, worker >>

\* A thread calls stop_session() and asks for the lock.
waiter_call ==
    /\ locking.waiter = "idle"
    /\ locking' = [locking EXCEPT !.waiter = "acquire"]
    /\ UNCHANGED << controller, recorder, audio, paste, worker >>

waiter_acquire ==
    /\ locking.waiter = "acquire"
    /\ locking.lock = "free"
    /\ locking' = [locking EXCEPT !.waiter = "locked", !.lock = "waiter"]
    /\ UNCHANGED << controller, recorder, audio, paste, worker >>

\* The first locked region of stop_session() (lines 66-70): an early
\* return, or the call goes on to its wait.
waiter_region(returns) ==
    /\ locking.waiter = "locked"
    /\ IF returns
       THEN locking' = [locking EXCEPT !.waiter = "idle", !.lock = "free"]
       ELSE locking' = [locking EXCEPT !.waiter = "wait",
                                       !.lock = lock_released_before_wait]
    /\ UNCHANGED << controller, recorder, audio, paste, worker >>

\* self._final_event.wait(timeout) returns, on the signal or on the
\* timeout, and the thread asks for the lock again (lines 72-74).
waiter_wait_returns ==
    /\ locking.waiter = "wait"
    /\ locking' = [locking EXCEPT !.waiter = "reacquire"]
    /\ UNCHANGED << controller, recorder, audio, paste, worker >>

waiter_reacquire ==
    /\ locking.waiter = "reacquire"
    /\ locking.lock = "free"
    /\ locking' = [locking EXCEPT !.waiter = "relocked", !.lock = "waiter"]
    /\ UNCHANGED << controller, recorder, audio, paste, worker >>

\* The second locked region of stop_session() (lines 74-92): an early
\* return, or one of the paths, which all call recognizer.stop().
waiter_resume(returns) ==
    /\ locking.waiter = "relocked"
    /\ IF returns
       THEN locking' = [locking EXCEPT !.waiter = "idle", !.lock = "free"]
       ELSE IF handler_alive
       THEN locking' = [locking EXCEPT !.stop_event = TRUE, !.waiter = "join"]
       ELSE locking' = [locking EXCEPT !.stop_event = TRUE,
                                       !.waiter = "idle", !.lock = "free"]
    /\ UNCHANGED << controller, recorder, audio, paste, worker >>

waiter_join ==
    /\ locking.waiter = "join"
    /\ join_returns
    /\ locking' = [locking EXCEPT !.waiter = "idle", !.lock = "free"]
    /\ UNCHANGED << controller, recorder, audio, paste, worker >>

\* The worker calls on_event and asks for the lock (line 110).
handler_call ==
    /\ locking.handler = "running"
    /\ locking' = [locking EXCEPT !.handler = "acquire"]
    /\ UNCHANGED << controller, recorder, audio, paste, worker >>

handler_acquire ==
    /\ locking.handler = "acquire"
    /\ locking.lock = "free"
    /\ locking' = [locking EXCEPT !.handler = "locked", !.lock = "worker"]
    /\ UNCHANGED << controller, recorder, audio, paste, worker >>

\* The locked region of _handle_recognition_event (lines 110-120).  A
\* Partial is forwarded and the worker goes on; a Final sets the signal
\* and an Error runs _fail, whose recognizer.stop() is called by the
\* worker itself: the join of the current thread raises RuntimeError,
\* which _safe_stop_recognizer swallows.  After a Final or an Error the
\* worker ends.
handler_region(kind) ==
    /\ locking.handler = "locked"
    /\ locking' =
         IF kind = PARTIAL
         THEN [locking EXCEPT !.handler = "running", !.lock = "free"]
         ELSE IF kind = FINAL
         THEN [locking EXCEPT !.handler = "none", !.lock = "free",
                              !.final_event = TRUE]
         ELSE [locking EXCEPT !.handler = "none", !.lock = "free",
                              !.stop_event = TRUE]
    /\ UNCHANGED << controller, recorder, audio, paste, worker >>

\* The worker reads the stop event and ends without an event.
handler_exit ==
    /\ locking.handler = "running"
    /\ locking.stop_event
    /\ locking' = [locking EXCEPT !.handler = "none"]
    /\ UNCHANGED << controller, recorder, audio, paste, worker >>

\* The steps of a call in progress that do not wait for the lock, for
\* each of the three threads.
CallerGoesOn ==
    \/ \E returns, raises \in BOOLEAN : caller_region(returns, raises)
    \/ caller_join

WaiterGoesOn ==
    \/ \E returns \in BOOLEAN : waiter_region(returns)
    \/ waiter_wait_returns
    \/ \E returns \in BOOLEAN : waiter_resume(returns)
    \/ waiter_join

HandlerGoesOn == \E kind \in Kinds : handler_region(kind)

LockNext ==
    \/ \E op \in Operations : caller_call(op)
    \/ caller_acquire
    \/ \E returns, raises \in BOOLEAN : caller_region(returns, raises)
    \/ caller_join
    \/ waiter_call
    \/ waiter_acquire
    \/ \E returns \in BOOLEAN : waiter_region(returns)
    \/ waiter_wait_returns
    \/ waiter_reacquire
    \/ \E returns \in BOOLEAN : waiter_resume(returns)
    \/ waiter_join
    \/ handler_call
    \/ handler_acquire
    \/ \E kind \in Kinds : handler_region(kind)
    \/ handler_exit

\* The controller lock with the threads that take it.
LockSpec == Init /\ [][LockNext]_vars

\* The scheduling: a thread inside a locked region, in a join or in the
\* wait goes on (both waits are bounded by their timeouts), and a thread
\* that asks for the lock gets it when the lock is released again and
\* again.
LockFairSpec ==
    /\ LockSpec
    /\ WF_vars(CallerGoesOn)
    /\ WF_vars(WaiterGoesOn)
    /\ WF_vars(HandlerGoesOn)
    /\ SF_vars(caller_acquire)
    /\ SF_vars(waiter_acquire)
    /\ SF_vars(waiter_reacquire)
    /\ SF_vars(handler_acquire)

\* ------------------------------------------------- observations, read
Errors(seq) == SelectSeq(seq, LAMBDA e : e.ev = "on_error")
Pastes(seq) == SelectSeq(seq, LAMBDA e : e.ev = "paste_text")
Occurs(e, seq) == \E i \in 1 .. Len(seq) : seq[i] = e
Precedes(e1, e2, seq) ==
    \E i, j \in 1 .. Len(seq) : i < j /\ seq[i] = e1 /\ seq[j] = e2
EndsWith(seq, tail) ==
    /\ Len(tail) <= Len(seq)
    /\ SubSeq(seq, Len(seq) - Len(tail) + 1, Len(seq)) = tail

\* s holds nothing but whitespace.
Blank(s) == \A k \in 1 .. Len(s) : s[k] = " "

\* p is s without its leading and trailing whitespace.
IsStripOf(p, s) ==
    \E i \in 1 .. Len(s) + 1 : \E j \in 0 .. Len(s) :
        /\ p = SubSeq(s, i, j)
        /\ \A k \in 1 .. i - 1 : s[k] = " "
        /\ \A k \in j + 1 .. Len(s) : s[k] = " "
        /\ p # << >> => p[1] # " " /\ p[Len(p)] # " "

\* ------------------------------------------------------------- claims
\* C1: start_session() called while the state is not IDLE changes
\* nothing, however often it is called: state, session id, final-result
\* signal, final text and audio queue stay, neither recognizer.start nor
\* recorder.start is called and no observer callback fires.
C1_StartWhileActiveIsNoop ==
    [][ (start_session /\ state # IDLE)
          => UNCHANGED << state, session_id, final_event, final_text,
                          audio_queue, obs, rec_running, asr_run, pc,
                          got_final, wsid >> ]_vars

\* A call that finds nothing to do is a step that changes no variable:
\* the state it was made in is the state it leaves.  Here start_session()
\* finds a session that is finalizing, its stop_session() call blocked.
C1_Witness ==
    /\ state = FINALIZING
    /\ session_id = 1
    /\ start_session_returns
    /\ \E t \in Threads : pc[t] = "blocked" /\ wsid[t] = session_id

\* C2: stop_session() called while the state is not RECORDING changes
\* nothing: the caller returns without entering the wait, the state stays,
\* neither recorder.stop nor recognizer.stop nor paste_text is called and
\* no observer callback fires.
C2_StopWhileNotRecordingIsNoop ==
    [][ \A t \in Threads :
          (stop_session_begin(t) /\ state # RECORDING)
            => /\ pc'[t] = "idle"
               /\ UNCHANGED << state, session_id, final_event, final_text,
                               audio_queue, obs, rec_running, asr_run,
                               got_final, wsid >> ]_vars

\* A second stop_session() finds the session finalizing, the first call
\* woken and a thread free to run the second.
C2_Witness ==
    /\ state = FINALIZING
    /\ stop_session_returns
    /\ \E t, u \in Threads : pc[t] = "woken" /\ pc[u] = "idle"

\* The stop_session() call of thread t resumes after its wait returned
\* True and finds the state still FINALIZING.
ResumesWithFinal(t) ==
    stop_session_resume(t) /\ state = FINALIZING /\ got_final[t]

\* The same after its wait timed out.
ResumesAfterTimeout(t) ==
    stop_session_resume(t) /\ state = FINALIZING /\ ~got_final[t]

C4_TimeoutReportsOneProtocolError ==
    [][ \A t \in Threads :
          ResumesAfterTimeout(t)
            => /\ state' = IDLE
               /\ Len(Errors(obs')) = 1
               /\ Errors(obs')[1].a = ASR_PROTOCOL_ERROR
               /\ Pastes(obs') = << >>
               /\ Precedes(on_state_change(FINALIZING, ERROR),
                           on_state_change(ERROR, IDLE), obs')
               /\ EndsWith(obs', << on_state_change(ERROR, IDLE) >>) ]_vars

C4_Witness ==
    /\ state = IDLE
    /\ Errors(obs) = << on_error(ASR_PROTOCOL_ERROR, "final result timeout") >>
    /\ Pastes(obs) = << >>
    /\ Occurs(on_state_change(FINALIZING, ERROR), obs)
    /\ EndsWith(obs, << on_state_change(ERROR, IDLE) >>)

\* C8: when the Final consumed by stop_session() has empty or
\* whitespace-only text, paste_text is not invoked, no error is reported,
\* the state goes from FINALIZING straight to IDLE, never through PASTING
\* or ERROR, and recognizer.stop is still called.
C8_BlankFinalSkipsPaste ==
    [][ \A t \in Threads :
          (ResumesWithFinal(t) /\ Blank(final_text))
            => /\ state' = IDLE
               /\ obs' = obs \o << on_state_change(FINALIZING, IDLE),
                                   recognizer_stop >>
               /\ Pastes(obs') = << >>
               /\ Errors(obs') = << >>
               /\ asr_run' = 0 ]_vars

C8_Witness ==
    /\ state = IDLE
    /\ final_text = << " " >>
    /\ EndsWith(obs, << on_state_change(FINALIZING, IDLE), recognizer_stop >>)
    /\ Pastes(obs) = << >>

\* The handler runs for an Error event of recognizer run r.
HandlesError(r) ==
    _handle_recognition_event(r) /\ pending[r].kind = ERROR_KIND

\* C5: an Error event delivered at any point after start_session(), a
\* stop_session() call waiting or not, the wait timed out or not: both
\* recorder.stop and recognizer.stop are called, exactly one error is
\* reported for that session, it carries the event's code and message, and
\* the state ends IDLE.
C5_ErrorEventOneErrorPerSession ==
    [][ \A r \in Runs :
          HandlesError(r)
            => /\ state' = IDLE
               /\ Occurs(recorder_stop, obs')
               /\ Occurs(recognizer_stop, obs')
               /\ Errors(obs') =
                    << on_error(pending[r].code, pending[r].message) >> ]_vars

\* C6: cancel_session(reason) in a state other than IDLE reports exactly
\* one error, with message reason, calls recorder.stop and recognizer.stop
\* and leaves the state IDLE; in IDLE it fires no callback, calls no
\* dependency and changes nothing.
C6_CancelReportsReasonAndStops ==
    [][ \A reason \in Reasons :
          cancel_session(reason)
            => IF state = IDLE
               THEN UNCHANGED << state, session_id, final_event, final_text,
                                 audio_queue, obs, rec_running, asr_run, pc,
                                 got_final, wsid >>
               ELSE /\ state' = IDLE
                    /\ Len(Errors(obs')) = 1
                    /\ Errors(obs')[1].b = reason
                    /\ \E i, j \in Len(obs) + 1 .. Len(obs') :
                         obs'[i] = recorder_stop /\ obs'[j] = recognizer_stop
                    /\ ~rec_running' /\ asr_run' = 0
                    /\ EndsWith(obs', << on_state_change(state, IDLE) >>) ]_vars

C6_Witness ==
    /\ state = IDLE
    /\ Errors(obs) = << on_error(ASR_PROTOCOL_ERROR, "app quit") >>
    /\ EndsWith(obs, << recorder_stop, recognizer_stop,
                        on_state_change(FINALIZING, IDLE) >>)

\* C9: an event of the recognizer run of session k that is delivered after
\* a later start_session() is ignored: a Final is not stored, does not
\* satisfy the wait of the later session and is not pasted; an Error does
\* not end the later session.
C9_StaleEventIgnored ==
    [][ \A r \in Runs :
          ( /\ _handle_recognition_event(r)
            /\ r < session_id
            /\ pending[r].kind \in {FINAL, ERROR_KIND} )
            => UNCHANGED << state, final_event, final_text, pc, got_final,
                            obs, rec_running, asr_run >> ]_vars

\* C10: a stop_session() call that began to wait in session k does nothing
\* in a later session: when it wakes, by timeout or by signal, after a
\* later start_session(), it reports no error, pastes nothing and makes no
\* transition.
C10_StaleWaiterInert ==
    [][ \A t \in Threads :
          (stop_session_resume(t) /\ wsid[t] < session_id)
            => UNCHANGED << state, obs, rec_running, asr_run >> ]_vars

\* C7: every entry into RECORDING is eventually followed by a return to
\* IDLE, in every execution in which the session is eventually stopped or
\* cancelled and the wait, paste_text and the stop calls return.
C7_RecordingLeadsToIdle == (state = RECORDING) ~> (state = IDLE)

C7_Witness ==
    /\ state = IDLE
    /\ session_id = MaxSessions
    /\ Occurs(on_state_change(IDLE, RECORDING), obs)
    /\ EndsWith(obs, << on_state_change(ERROR, IDLE) >>)

\* C11: when a stop_session() call is blocked in the wait and the session
\* is ended by an Error event or by cancel_session(), the wait is
\* signalled: the blocked call is woken by that step, it does not have to
\* wait for the timeout.
C11_TerminationWakesWaiter ==
    [][ ( \/ \E reason \in Reasons : cancel_session(reason) /\ state # IDLE
          \/ \E r \in Runs : HandlesError(r) )
          => \A t \in Threads :
               (pc[t] = "blocked" /\ wsid[t] = session_id)
                 => pc'[t] = "woken" ]_vars

\* The operation handles a Final event of run r.
HandlesFinal(r) ==
    _handle_recognition_event(r) /\ pending[r].kind = FINAL

\* C12: of several Final events delivered during one session only the first
\* is consumed: a Final delivered after the signal of the session is set
\* leaves the text that stop_session() pastes, the stripped final text, as
\* the first Final set it.
C12_FirstFinalOnly ==
    [][ \A r \in Runs :
          (HandlesFinal(r) /\ final_event)
            => Strip(final_text') = Strip(final_text) ]_vars

\* C13: a Final or Error event delivered when the session is over and the
\* state is IDLE is discarded: no on_error or on_state_change callback, no
\* recorder.stop or recognizer.stop call, and the state stays IDLE without
\* passing through ERROR.
C13_EventInIdleDiscarded ==
    [][ \A r \in Runs :
          ( /\ HandlesFinal(r) \/ HandlesError(r)
            /\ state = IDLE
            /\ session_id >= 1 )
            => /\ state' = IDLE
               /\ obs' = obs
               /\ UNCHANGED << rec_running, asr_run >> ]_vars

\* C14: a Final delivered while the state is RECORDING is remembered: the
\* signal is set with that Final's text and both stay as they are until
\* the next stop_session(); that call does not block in the wait, its
\* wait returns True (never the timeout path), and it completes the cycle
\* with that text: one paste of it if it is not blank, no paste if it is.
C14_RememberedFinalCompletesCycle ==
    [][ /\ \A r \in Runs :
             (HandlesFinal(r) /\ state = RECORDING)
               => final_event' /\ final_text' = pending[r].text
        /\ (state = RECORDING /\ final_event /\ state' \in {RECORDING, FINALIZING})
             => final_event' /\ Strip(final_text') = Strip(final_text)
        /\ \A t \in Threads :
             (final_event_wait(t) /\ wsid[t] = session_id /\ final_event)
               => pc'[t] = "woken" /\ got_final'[t]
        /\ \A t \in Threads :
             (stop_session_resume(t) /\ wsid[t] = session_id
                /\ state = FINALIZING /\ final_event)
               => /\ got_final[t] => state' = IDLE
                  /\ got_final[t] =>
                       Pastes(obs') =
                         IF Blank(final_text) THEN << >>
                         ELSE << paste_text(Strip(final_text),
                                            Pastes(obs')[1].a) >> ]_vars

\* The stop_session() call of thread t pastes and the paste fails: the
\* service reports failure or raises.
PasteFails(t) ==
    /\ ResumesWithFinal(t)
    /\ ~Blank(final_text)
    /\ Pastes(obs') # << >>
    /\ Pastes(obs')[1].a # "ok"

\* C15: when paste_text reports failure or raises in PASTING, exactly one
\* error is reported, with code NO_ACTIVE_TARGET, the state does not enter
\* ERROR in that cycle, recognizer.stop is called, and the cycle ends with
\* PASTING->IDLE.
C15_PasteFailureReportsNoActiveTarget ==
    [][ \A t \in Threads :
          PasteFails(t)
            => /\ Len(Errors(obs')) = 1
               /\ Errors(obs')[1].a = NO_ACTIVE_TARGET
               /\ \A i \in 1 .. Len(obs') :
                    ~(obs'[i].ev = "on_state_change" /\ obs'[i].b = ERROR)
               /\ Precedes(on_state_change(FINALIZING, PASTING),
                           Errors(obs')[1], obs')
               /\ EndsWith(obs', << Errors(obs')[1], recognizer_stop,
                                    on_state_change(PASTING, IDLE) >>)
               /\ asr_run' = 0
               /\ state' = IDLE ]_vars

C15_Witness ==
    /\ state = IDLE
    /\ Pastes(obs) = << paste_text(<< "h" >>, "raises") >>
    /\ Errors(obs) = << on_error(NO_ACTIVE_TARGET, "paste raised") >>
    /\ EndsWith(obs, << recognizer_stop, on_state_change(PASTING, IDLE) >>)

\* C16: cancel_session() in a state other than IDLE drives the machine
\* through ERROR: the observer sees the transition from the current state
\* to ERROR and then ERROR->IDLE, never a transition from RECORDING or
\* FINALIZING straight to IDLE.
C16_CancelPassesThroughError ==
    [][ \A reason \in Reasons :
          (cancel_session(reason) /\ state # IDLE)
            => LET seen == SubSeq(obs', Len(obs) + 1, Len(obs'))
               IN  /\ Precedes(on_state_change(state, ERROR),
                               on_state_change(ERROR, IDLE), seen)
                   /\ ~Occurs(on_state_change(state, IDLE), seen) ]_vars

\* start_session() finds the state IDLE and one of its two start calls
\* raises.
StartRaises ==
    /\ start_session
    /\ state = IDLE
    /\ \E i \in 1 .. Len(obs') :
         /\ obs'[i].ev \in {"recognizer.start", "recorder.start"}
         /\ obs'[i].a = "raises"

\* C17: when recognizer.start or recorder.start raises in start_session(),
\* exactly one error is reported, with code ASR_PROTOCOL_ERROR,
\* recorder.stop and recognizer.stop are both called, the state goes
\* RECORDING->ERROR->IDLE, and start_session() runs to its end.
C17_StartFailureIsErrorPath ==
    [][ StartRaises
          => /\ session_id' = session_id + 1
             /\ state' = IDLE
             /\ Len(Errors(obs')) = 1
             /\ Errors(obs')[1].a = ASR_PROTOCOL_ERROR
             /\ obs'[1] = on_state_change(IDLE, RECORDING)
             /\ EndsWith(obs', << on_state_change(RECORDING, ERROR),
                                  Errors(obs')[1], recorder_stop,
                                  recognizer_stop,
                                  on_state_change(ERROR, IDLE) >>)
             /\ ~rec_running' /\ asr_run' = 0 ]_vars

C17_Witness ==
    /\ state = IDLE
    /\ session_id = 1
    /\ obs = << on_state_change(IDLE, RECORDING),
                raised(recognizer_start(1)),
                on_state_change(RECORDING, ERROR),
                on_error(ASR_PROTOCOL_ERROR, "start failed"),
                recorder_stop, recognizer_stop,
                on_state_change(ERROR, IDLE) >>

\* The callbacks and dependency calls of the step: start_session() opens a
\* new log, every other step appends to the log of the session.
Seen ==
    IF session_id' # session_id
    THEN obs'
    ELSE SubSeq(obs', Len(obs) + 1, Len(obs'))

StopCalls == {"recorder.stop", "recognizer.stop"}

\* C18: when recorder.stop or recognizer.stop raises during a cleanup
\* (timeout, Error event, start failure, cancel, normal completion), the
\* operation still runs to its end: the other dependency's stop is called,
\* no error is reported after the failed stop, so none beyond the primary
\* one, and the state reaches IDLE.  stop_session() stops the recorder on
\* entering FINALIZING: there the call goes on to its wait.
C18_StopFailureIsSwallowed ==
    [][ \A i \in 1 .. Len(Seen) :
          (Seen[i].ev \in StopCalls /\ Seen[i].a = "raises")
            => /\ \/ state' = IDLE
                  \/ /\ state = RECORDING /\ state' = FINALIZING
                     /\ \E t \in Threads : pc[t] = "idle" /\ pc'[t] = "wait"
               /\ \A j \in i + 1 .. Len(Seen) : Seen[j].ev # "on_error"
               /\ Len(Errors(Seen)) <= 1
               /\ state' = IDLE =>
                    /\ \E j \in 1 .. Len(obs') : obs'[j].ev = "recorder.stop"
                    /\ \E j \in 1 .. Len(Seen) : Seen[j].ev = "recognizer.stop"
                    /\ Seen[i].ev = "recorder.stop" =>
                         \E j \in i + 1 .. Len(Seen) :
                             Seen[j].ev = "recognizer.stop"
                    /\ ~rec_running' /\ asr_run' = 0 ]_vars

\* recorder.stop() raised in the error path of a timeout; recognizer.stop()
\* was called after it and the session ended with one error.
C18_Witness ==
    /\ state = IDLE
    /\ stop_raises = {"recorder"}
    /\ Errors(obs) = << on_error(ASR_PROTOCOL_ERROR, "final result timeout") >>
    /\ EndsWith(obs, << raised(recorder_stop), recognizer_stop,
                        on_state_change(ERROR, IDLE) >>)

\* The on_state_change callbacks of the session log, in order.
Transitions(seq) == SelectSeq(seq, LAMBDA e : e.ev = "on_state_change")

\* C19: the on_state_change callbacks run one at a time, inside the locked
\* regions, and show the state changes in the order they occur: in every
\* session the first callback's from-state is IDLE, each later callback's
\* from-state is the to-state of the one before, from-state and to-state
\* differ, and the last to-state is the current state.
C19_TransitionsObservedInOrder ==
    LET tr == Transitions(obs)
    IN  /\ tr = << >> => state = IDLE
        /\ tr # << >> => tr[1].a = IDLE /\ tr[Len(tr)].b = state
        /\ \A i \in 1 .. Len(tr) :
             /\ tr[i].a # tr[i].b
             /\ tr[i].a \in SessionState /\ tr[i].b \in SessionState
             /\ i > 1 => tr[i].a = tr[i - 1].b

\* The second session ran to a paste while a stop_session() call of the
\* first was still in flight on another thread.
C19_Witness ==
    /\ state = IDLE
    /\ session_id = 2
    /\ \E t \in Threads : pc[t] # "idle" /\ wsid[t] = 1
    /\ Transitions(obs) = << on_state_change(IDLE, RECORDING),
                             on_state_change(RECORDING, FINALIZING),
                             on_state_change(FINALIZING, PASTING),
                             on_state_change(PASTING, IDLE) >>

\* C20: the session id increases by exactly 1 in each start_session() that
\* finds the state IDLE, and no other operation changes it: stop_session(),
\* cancel_session(), the event handler and a start_session() that finds a
\* session active leave it as it is.
C20_SessionIdIncrements ==
    [][ /\ (start_session /\ state = IDLE) => session_id' = session_id + 1
        /\ session_id' # session_id => start_session /\ state = IDLE
        /\ session_id' >= session_id ]_vars

\* The second session has started: the id went from 0 to 2 in two steps
\* of start_session().
C20_Witness ==
    /\ session_id = 2
    /\ state = RECORDING
    /\ audio_queue = 2
    /\ obs = << on_state_change(IDLE, RECORDING), recognizer_start(2),
                recorder_start(2) >>

\* The operation handles a Partial event of run r.
HandlesPartial(r) ==
    _handle_recognition_event(r) /\ pending[r].kind = PARTIAL

\* C21: a Partial event is forwarded to on_partial with its text, in the
\* order of delivery and in every state, IDLE included; it leaves state,
\* session id, signal and final text unchanged and causes no dependency
\* call and no other callback.
C21_PartialIsForwardedOnly ==
    [][ \A r \in Runs :
          HandlesPartial(r)
            => /\ Len(obs') = Len(obs) + 1
               /\ SubSeq(obs', 1, Len(obs)) = obs
               /\ obs'[Len(obs')].ev = "on_partial"
               /\ obs'[Len(obs')].txt = pending[r].text
               /\ pending[r].text \in PartialTexts
               /\ UNCHANGED << state, session_id, final_event, final_text,
                               audio_queue, pc, got_final, wsid,
                               rec_running, asr_run >> ]_vars

\* A Partial was forwarded after the session had been cancelled.
C21_Witness ==
    /\ state = IDLE
    /\ session_id = 1
    /\ EndsWith(obs, << on_state_change(RECORDING, IDLE),
                        on_partial(<< "h" >>) >>)

\* stop_session() of thread t completes a cycle: its wait returned with
\* the Final and the state is still FINALIZING.
Completes(t) ==
    stop_session_resume(t) /\ state = FINALIZING /\ got_final[t]

\* C29: in every completion path of stop_session() (blank Final, paste
\* done, paste failed) recognizer.stop() is called before the transition
\* from FINALIZING or PASTING to IDLE is made and reported.
C29_RecognizerStoppedBeforeIdle ==
    [][ \A t \in Threads :
          Completes(t)
            => \E j \in 1 .. Len(Seen) :
                 /\ Seen[j].ev = "on_state_change"
                 /\ Seen[j].b = IDLE
                 /\ \E i \in 1 .. j - 1 : Seen[i].ev = "recognizer.stop" ]_vars

\* C30: ERROR is never a resting state: every transition into ERROR is
\* followed in the same locked step by the error report, recorder.stop,
\* recognizer.stop and ERROR->IDLE; so no step ends, and none begins, in
\* ERROR.
C30_ErrorIsTransient ==
    /\ [](state # ERROR)
    /\ [][ \A i \in 1 .. Len(Seen) :
             (Seen[i].ev = "on_state_change" /\ Seen[i].b = ERROR)
               => /\ i + 4 <= Len(Seen)
                  /\ Seen[i + 1].ev = "on_error"
                  /\ Seen[i + 2].ev = "recorder.stop"
                  /\ Seen[i + 3].ev = "recognizer.stop"
                  /\ Seen[i + 4].ev = "on_state_change"
                  /\ Seen[i + 4].a = ERROR
                  /\ Seen[i + 4].b = IDLE
                  /\ state' = IDLE ]_vars

\* An Error event came while stop_session() waited: the step went through
\* ERROR to IDLE with the report and both stops in between.
C30_Witness ==
    /\ state = IDLE
    /\ EndsWith(obs, << on_state_change(FINALIZING, ERROR),
                        on_error(NETWORK_ERROR, "connection lost"),
                        recorder_stop, recognizer_stop,
                        on_state_change(ERROR, IDLE) >>)

\* ------------------------------------------------ claims on the recorder

\* The sequence holds the item.
Holds(queue, item) == \E i \in 1 .. Len(queue) : queue[i] = item

\* A call of stop() returns.
StopReturns ==
    SoundDeviceRecorder_stop_not_running \/ SoundDeviceRecorder_stop_finish

\* C22: every stop() after a start(queue) leaves the end-of-stream marker
\* in that queue, whatever the number of frames the queue holds, a queue
\* at capacity included.
C22_StopLeavesMarker ==
    [][ StopReturns /\ recorder.audio_queue # 0
          => Holds(audio'.queues[recorder.audio_queue], Marker) ]_vars

\* A frame is put at the end of queue q.
FramePut(q) == audio'.queues[q] = Append(audio.queues[q], Frame)

\* C23: the marker is the last item of the audio stream of a session: no
\* call of _on_audio(), one that runs while stop() runs included, puts a
\* frame into a queue after the marker was put into it.
C23_NoFrameAfterMarker ==
    [][ \A q \in Queues : FramePut(q) => q \notin audio.marked ]_vars

\* stop() returned while a callback had passed its checks: the frame of
\* that callback comes before the marker, and the callbacks of the next
\* stream put their frames into the next queue.
C23_Witness ==
    /\ audio.queues[1] = << Frame, Marker >>
    /\ audio.queues[2] = << Frame >>
    /\ recorder.audio_queue = 2
    /\ audio.callback = "checked"

\* C24: at capacity _on_audio() returns, leaves the queue as it is and
\* adds one to dropped_chunks; with room it puts exactly one frame and
\* leaves dropped_chunks as it is; no queue is ever longer than its
\* capacity.
C24_FullQueueDropsChunk ==
    /\ [](\A q \in Queues : Len(audio.queues[q]) <= QueueMaxsize)
    /\ [][ _on_audio_put
             => LET q == recorder.audio_queue
                IN  /\ audio'.callback = "none"
                    /\ \A p \in Queues \ {q} :
                         audio'.queues[p] = audio.queues[p]
                    /\ IF Len(audio.queues[q]) = QueueMaxsize
                       THEN /\ audio'.queues[q] = audio.queues[q]
                            /\ recorder'.dropped_chunks
                                 = recorder.dropped_chunks + 1
                       ELSE /\ FramePut(q)
                            /\ recorder'.dropped_chunks
                                 = recorder.dropped_chunks ]_vars

\* A chunk was dropped: the queue is at capacity, of frames only.
C24_Witness ==
    /\ recorder.dropped_chunks = 1
    /\ recorder.audio_queue = 1
    /\ Len(audio.queues[1]) = QueueMaxsize
    /\ ~Holds(audio.queues[1], Marker)
    /\ audio.callback = "none"

\* C25: start() of a running recorder makes and starts no stream and
\* keeps the queue; stop() of a recorder that is not running closes no
\* stream.
C25_RedundantStartStop ==
    [][ /\ (recorder.running
              /\ \E outcome \in RecorderStartOutcomes :
                   SoundDeviceRecorder_start(outcome))
          => UNCHANGED << recorder, audio >>
        /\ SoundDeviceRecorder_stop_not_running
          => /\ audio'.streams = audio.streams
             /\ recorder' = recorder ]_vars

\* stop() found the recorder not running, with the stream whose start
\* had raised: the marker is in the first queue and that stream is not
\* closed; the recorder then runs with its second stream.
C25_Witness ==
    /\ audio.streams = << "made", "active" >>
    /\ 1 \in audio.marked
    /\ recorder.running
    /\ recorder.audio_queue = 2

\* ----------------------------------------------- claims on the recognizer

\* The event ends a pass.
Terminal(event) == event.kind \in {FINAL, ERROR_KIND}

\* C26: a pass that stop() does not cancel emits, after the items up to
\* the marker are consumed, zero or more Partial events, then exactly one
\* Final or Error, and nothing after it; a pass without audio emits
\* exactly one Final with empty text and no Partial.
C26_PartialsThenOneTerminal ==
    /\ \A i \in 1 .. Len(worker.events) :
         Terminal(worker.events[i]) => i = Len(worker.events)
                                         /\ worker.pc = "done"
    /\ worker.pc = "done" /\ ~worker.stop_event
         => /\ worker.events # << >>
            /\ Terminal(worker.events[Len(worker.events)])
            /\ worker.pcm = 0
                 => worker.events = << [kind |-> FINAL, text |-> EmptyText,
                                        code |-> ""] >>

\* A pass with audio has ended with two Partial events and the Final.
C26_Witness ==
    /\ worker.pc = "done"
    /\ ~worker.stop_event
    /\ worker.pcm = 1
    /\ worker.events = << WorkerEvent(PARTIAL, << "h" >>, ""),
                          WorkerEvent(PARTIAL, << "h", "i" >>, ""),
                          WorkerEvent(FINAL, << "h", "i" >>, "") >>

\* C27: after stop() was called the worker emits no further Partial,
\* Final or Error event, wherever the pass stood: consuming the queue,
\* between two chunks, or after the last chunk.
C27_NoEventAfterStop ==
    [][ worker.stop_event /\ worker'.stop_event
          => worker'.events = worker.events ]_vars

\* ------------------------------------------- claims on the paste service

\* C28: when the sequence raises after the text was put on the
\* clipboard, the text is on the clipboard when paste_text() returns.
C28_FailedPasteKeepsText ==
    [][ \A text \in PasteTexts, fault \in PlacedFaults, again \in BOOLEAN :
          ClipboardPasteService_paste(text, fault, again)
            /\ Strip(text) # EmptyText
            => paste'.clipboard = text ]_vars

\* ------------------------------------------- claims on the orchestrator

\* start_session() finds the state IDLE.
StartsSession == start_session /\ state = IDLE

\* The calls of the log to the start of a dependency.
Starts(seq, dependency) ==
    { i \in 1 .. Len(seq) : seq[i].ev = dependency }

\* C32: a start_session() that finds IDLE clears the signal and the final
\* text, takes a queue no earlier session had, goes to RECORDING, then
\* calls recognizer.start exactly once and after it recorder.start at most
\* once, both with the new queue; no other operation calls a start.
C32_StartSessionSetsUpOnce ==
    [][ /\ StartsSession
          => /\ final_event' = FALSE
             /\ final_text' = EmptyText
             /\ audio_queue' > audio_queue
             /\ Len(obs') >= 2
             /\ obs'[1].ev = "on_state_change"
             /\ obs'[1].a = IDLE /\ obs'[1].b = RECORDING
             /\ Starts(obs', "recognizer.start") = {2}
             /\ Starts(obs', "recorder.start") \subseteq {3}
             /\ \A i \in 2 .. Len(obs') :
                  obs'[i].ev \in {"recognizer.start", "recorder.start"}
                    => obs'[i].n = audio_queue'
        /\ ~StartsSession
          => /\ Starts(Seen, "recognizer.start") = {}
             /\ Starts(Seen, "recorder.start") = {}
             /\ audio_queue' = audio_queue ]_vars

\* The second session runs with the second queue; both starts got it.
C32_Witness ==
    /\ state = RECORDING
    /\ session_id = 2
    /\ ~final_event
    /\ Len(obs) = 3
    /\ obs[2] = recognizer_start(2)
    /\ obs[3] = recorder_start(2)
    /\ pc[1] = "blocked"

\* C33: no reachable state is stuck: from every state other than IDLE,
\* states with a blocked stop_session() call and states after a failure
\* of a dependency included, some finite sequence of inputs leads to
\* IDLE.  One input does: cancel_session() can be called and ends in IDLE.
C33_NoStuckState ==
    state # IDLE
      => ENABLED (\E reason \in Reasons :
                    cancel_session(reason) /\ state' = IDLE)

\* A call of stop_session() is blocked in its wait while the session of
\* another call is being finalized.
C33_Witness ==
    /\ state = FINALIZING
    /\ session_id = 2
    /\ pc[1] = "blocked" /\ wsid[1] = 1
    /\ pc[2] = "blocked" /\ wsid[2] = 2

\* C34: paste_text is invoked only while the state is PASTING, at most
\* once per session id, never with an empty or whitespace-only text, and
\* only after recorder.stop was called in that session; also with several
\* stop_session() calls in flight.
C34_PasteOnlyInPasting ==
    /\ Len(Pastes(obs)) <= 1
    /\ \A i \in 1 .. Len(obs) :
         obs[i].ev = "paste_text"
           => /\ ~Blank(obs[i].txt)
              /\ i > 1
              /\ obs[i - 1].ev = "on_state_change"
              /\ obs[i - 1].b = PASTING
              /\ \E j \in 1 .. i - 1 : obs[j].ev = "recorder.stop"

\* The call of the first session, woken by the Final of the second
\* session, pasted in the second session while the call of the second
\* session was still in its wait.
C34_Witness ==
    /\ session_id = 2
    /\ Len(Pastes(obs)) = 1
    /\ pc[1] = "idle"
    /\ pc[2] = "woken" /\ wsid[2] = 2

\* C35: when a Final with non-blank text is handled while the state is
\* FINALIZING, the session completes by pasting that text and does not
\* fail with 'final result timeout', however the expiry of the timeout,
\* the handler and the waiter's return to the lock interleave.  A call
\* that entered its wait in this session resumes in FINALIZING with the
\* signal set: the Final was handled during its wait.
C35_HandledFinalIsPasted ==
    [][ \A t \in Threads :
          ( /\ stop_session_resume(t)
            /\ state = FINALIZING
            /\ wsid[t] = session_id
            /\ final_event
            /\ ~Blank(final_text) )
            => /\ Len(Pastes(Seen)) = 1
               /\ Errors(Seen) # << on_error(ASR_PROTOCOL_ERROR,
                                             "final result timeout") >> ]_vars

\* The last call of the log to a start of the dependency has a call to
\* its stop after it.
StoppedSinceStart(seq, dependency) ==
    \A i \in 1 .. Len(seq) :
        seq[i].ev = dependency \o ".start"
          => \E j \in i + 1 .. Len(seq) : seq[j].ev = dependency \o ".stop"

\* C37: no dependency is left running outside a session: whenever the
\* state is IDLE between two steps, recorder.stop was called since the
\* last recorder.start and recognizer.stop since the last
\* recognizer.start; and the recorder never runs while the state is
\* FINALIZING or PASTING.
C37_NothingRunsOutsideSession ==
    /\ state = IDLE
         => /\ StoppedSinceStart(obs, "recorder")
            /\ StoppedSinceStart(obs, "recognizer")
            /\ ~rec_running
            /\ asr_run = 0
    /\ state \in {FINALIZING, PASTING}
         => /\ StoppedSinceStart(obs, "recorder")
            /\ ~rec_running

\* A session ended by the blank Final: the recorder was stopped on
\* entering FINALIZING, the recognizer on leaving it.
C37_Witness ==
    /\ state = IDLE
    /\ session_id = 2
    /\ obs = << on_state_change(IDLE, RECORDING), recognizer_start(2),
                recorder_start(2), on_state_change(RECORDING, FINALIZING),
                recorder_stop, on_state_change(FINALIZING, IDLE),
                recognizer_stop >>

\* C36: every start(queue, on_event) of a new session gives a worker that
\* consumes the queue of that call, also when the worker of the session
\* before has not ended because stop() gave up its join.  After stop()
\* has returned, a start() begins the next pass, with the queue of the
\* call.
C36_StartAfterStopStartsWorker ==
    (worker.stop_event /\ ~worker.join /\ worker.passes < MaxPasses)
      => ENABLED ( /\ DashscopeRecognizerAdapter_start
                   /\ worker'.passes = worker.passes + 1
                   /\ worker'.pc = "loop"
                   /\ worker'.queue = << >>
                   /\ ~worker'.stop_event )

\* ---------------------------------------------------- claims on the lock

\* C31: a stop_session() call that waits for the final result does not
\* hold the lock: start_session, cancel_session and the event handler can
\* each take the lock and complete during the wait, and the waiter reads
\* and updates the state, in its locked regions, only while it holds the
\* lock.
C31_WaitReleasesLock ==
    /\ locking.waiter \in {"wait", "reacquire"} => locking.lock # "waiter"
    /\ locking.waiter \in {"locked", "relocked", "join"}
         <=> locking.lock = "waiter"
    /\ ( /\ locking.waiter = "wait"
         /\ locking.lock = "free" )
         => /\ locking.caller = "acquire" => ENABLED caller_acquire
            /\ locking.handler = "acquire" => ENABLED handler_acquire

\* cancel_session() holds the lock while a stop_session() call waits, and
\* the worker waits for the lock in the handler.
C31_Witness ==
    /\ locking.waiter = "wait"
    /\ locking.lock = "caller"
    /\ locking.op = "cancel_session"
    /\ locking.handler = "acquire"

\* C38: the controller does not deadlock with the recognizer worker:
\* recognizer.stop() joins the worker inside a locked region while the
\* worker may wait for the same lock in the handler, yet every
\* start_session, stop_session, cancel_session and handler call returns,
\* the join and the wait for the final result being bounded.
C38_EveryCallReturns ==
    /\ (locking.caller # "idle") ~> (locking.caller = "idle")
    /\ (locking.waiter # "idle") ~> (locking.waiter = "idle")
    /\ (locking.handler \in {"acquire", "locked"})
         ~> (locking.handler \notin {"acquire", "locked"})

\* cancel_session() is in the join of recognizer.stop(), holding the
\* lock, while the worker waits for the lock in the handler and a
\* stop_session() call waits to take the lock again.
C38_Witness ==
    /\ locking.caller = "join"
    /\ locking.lock = "caller"
    /\ locking.handler = "acquire"
    /\ locking.waiter = "reacquire"

====
